---- MODULE Spec2Model ----
(***************************************************************************)
(* A model of rokucli/cli.py: the script-mode command interpreter          *)
(* (parse_and_execute_commands, execute_command, execute_text) and the     *)
(* interactive dispatcher (run, text_entry).                               *)
(*                                                                         *)
(* Python strings are modelled as sequences of one-character strings, so   *)
(* that split, strip, upper/lower, startswith, slicing and float() are     *)
(* computed character by character as the library computes them.          *)
(***************************************************************************)
EXTENDS Integers, Sequences, FiniteSets, TLC

(***************************************************************************)
(* Bounds of the model.                                                    *)
(***************************************************************************)
\* most comma-separated tokens in a script given with -c
MaxTokens == 3
\* most key events read from the terminal in one interactive run
MaxKeys == 3

(***************************************************************************)
(* Python string operations.                                               *)
(***************************************************************************)
LowerAlpha == <<"a","b","c","d","e","f","g","h","i","j","k","l","m",
                "n","o","p","q","r","s","t","u","v","w","x","y","z">>
UpperAlpha == <<"A","B","C","D","E","F","G","H","I","J","K","L","M",
                "N","O","P","Q","R","S","T","U","V","W","X","Y","Z">>
Whitespace == {" ", "\t"}
Digits == <<"0","1","2","3","4","5","6","7","8","9">>
DigitSet == {Digits[i] : i \in 1..10}

\* str.lower() on one character
lower_char(c) ==
    IF \E i \in 1..26 : UpperAlpha[i] = c
    THEN LowerAlpha[CHOOSE i \in 1..26 : UpperAlpha[i] = c]
    ELSE c

\* str.upper() on one character
upper_char(c) ==
    IF \E i \in 1..26 : LowerAlpha[i] = c
    THEN UpperAlpha[CHOOSE i \in 1..26 : LowerAlpha[i] = c]
    ELSE c

\* str.lower()
lower(s) == [i \in 1..Len(s) |-> lower_char(s[i])]

\* str.upper()
upper(s) == [i \in 1..Len(s) |-> upper_char(s[i])]

\* str.startswith(p)
startswith(s, p) == Len(s) >= Len(p) /\ SubSeq(s, 1, Len(p)) = p

\* the slice s[n:]
slice_from(s, n) == SubSeq(s, n + 1, Len(s))

RECURSIVE lstrip(_)
lstrip(s) ==
    IF s # <<>> /\ Head(s) \in Whitespace THEN lstrip(Tail(s)) ELSE s

RECURSIVE rstrip(_)
rstrip(s) ==
    IF s # <<>> /\ s[Len(s)] \in Whitespace
    THEN rstrip(SubSeq(s, 1, Len(s) - 1))
    ELSE s

\* str.strip()
strip(s) == rstrip(lstrip(s))

\* str.split(sep) for a one-character separator: always at least one piece
RECURSIVE split(_, _)
split(s, sep) ==
    IF \E i \in 1..Len(s) : s[i] = sep
    THEN LET i == CHOOSE k \in 1..Len(s) :
                    s[k] = sep /\ \A j \in 1..(k - 1) : s[j] # sep
         IN  <<SubSeq(s, 1, i - 1)>> \o split(SubSeq(s, i + 1, Len(s)), sep)
    ELSE <<s>>

\* the value of a string of decimal digits
RECURSIVE digits_value(_)
digits_value(s) ==
    IF s = <<>> THEN 0
    ELSE 10 * digits_value(SubSeq(s, 1, Len(s) - 1))
         + ((CHOOSE i \in 1..10 : Digits[i] = s[Len(s)]) - 1)

\* [sign] digits [. digits] or [sign] . digits, the sign already removed
is_decimal(b) ==
    /\ \A i \in 1..Len(b) : b[i] \in DigitSet \cup {"."}
    /\ Cardinality({i \in 1..Len(b) : b[i] = "."}) <= 1
    /\ \E i \in 1..Len(b) : b[i] \in DigitSet

\* a decimal numeral's value in milliseconds (three fractional digits kept)
decimal_ms(b) ==
    LET parts == split(b, ".")
        whole == parts[1]
        frac  == IF Len(parts) > 1 THEN parts[2] ELSE <<>>
        frac3 == SubSeq(frac \o <<"0","0","0">>, 1, 3)
    IN  digits_value(whole) * 1000 + digits_value(frac3)

\* float(s): the result is either a ValueError or a float, given by its kind
\* (finite, inf, nan), its sign and, when finite, its magnitude in
\* milliseconds.  Exponents and digit-group underscores are not modelled.
float(s) ==
    LET t      == strip(s)
        signed == t # <<>> /\ t[1] \in {"+", "-"}
        neg    == signed /\ t[1] = "-"
        body   == IF signed THEN Tail(t) ELSE t
        lb     == lower(body)
    IN  IF lb \in {<<"i","n","f">>, <<"i","n","f","i","n","i","t","y">>}
        THEN [err |-> FALSE, kind |-> "inf", neg |-> neg, ms |-> 0]
        ELSE IF lb = <<"n","a","n">>
        THEN [err |-> FALSE, kind |-> "nan", neg |-> neg, ms |-> 0]
        ELSE IF is_decimal(body)
        THEN [err |-> FALSE, kind |-> "finite", neg |-> neg,
              ms |-> decimal_ms(body)]
        ELSE [err |-> TRUE, kind |-> "none", neg |-> FALSE, ms |-> 0]

\* time.sleep(d): a negative or NaN length raises ValueError, a length out of
\* the range of the platform's time_t (either infinity) raises OverflowError
sleep_outcome(d) ==
    IF d.kind = "nan" THEN "ValueError"
    ELSE IF d.kind = "finite" /\ d.neg /\ d.ms > 0 THEN "ValueError"
    ELSE IF d.kind = "inf" THEN "OverflowError"
    ELSE "ok"

(***************************************************************************)
(* Words of the script language.                                           *)
(***************************************************************************)
WAIT == <<"W","A","I","T",":">>
TEXT == <<"T","E","X","T",":">>

\* args.command when -c/--command is not on the command line
None == <<"None">>

\* the raw tokens scripts are built from (the text between two commas)
TokenPool ==
    { <<>>,
      <<" ">>,
      <<"h","o","m","e">>,
      <<" ","U","p"," ">>,
      <<"x">>,
      <<"w","a","i","t",":",".","5">>,
      <<"W","A","I","T",":">>,
      <<"W","A","I","T",":","-","1">>,
      <<"W","A","I","T",":","1",":","x">>,
      <<"W","A","I","T",":","i","n","f">>,
      <<"T","e","x","t",":","H","i">>,
      <<"t","e","x","t",":">> }

\* ','.join(ts)
RECURSIVE join(_)
join(ts) ==
    IF ts = <<>> THEN <<>>
    ELSE IF Len(ts) = 1 THEN ts[1]
    ELSE ts[1] \o <<",">> \o join(Tail(ts))

\* the command strings the -c option is given
ScriptPool ==
    { join(ts) : ts \in UNION { [1..n -> TokenPool] : n \in 0..MaxTokens } }

\* the terminal's column when the text-entry prompt has been written
StartColumns == {0, 29}

(***************************************************************************)
(* The state of one run of the program.                                    *)
(***************************************************************************)
VARIABLES
    pc,             \* where run() is: start, script, script_return,
                    \*   main_loop, text_entry, exited
    command,        \* args.command: None or the script string
    roku,           \* self.roku: TRUE when a device handle was obtained
    roku_type,      \* self.roku.device_info.roku_type, none until queried
    commands,       \* parse_and_execute_commands: the stripped tokens
    idx,            \* parse_and_execute_commands: position of the for loop
    success,        \* its return value: none, True, False, or raised when
                    \*   an exception left it
    exit_status,    \* the process's exit status, -1 while it runs
    trace,          \* every device operation attempted and every sleep
                    \*   done, in order, each tagged with the token or key
                    \*   event it belongs to
    is_tv,          \* run: the device-type flag
    cmd_func_map,   \* run: the active key-binding table
    val,            \* run: the key event last read by the main loop
    te_val,         \* text_entry: its own val, the key event it last read
    keys_read,      \* number of key events read from the terminal
    looked_up,      \* run: number of the key event for which the table test
                    \*   `val in cmd_func_map` was last evaluated, 0 if none
    cbreak,         \* number of term.cbreak() contexts entered, not left
    start_column,   \* text_entry: column when the sub-mode began
    cur_column,     \* text_entry: the local column counter
    echoed,         \* text_entry: characters written to the screen
    erased          \* text_entry: visual erasures written to the screen

vars == <<pc, command, roku, roku_type, commands, idx, success, exit_status,
          trace, is_tv, cmd_func_map, val, te_val, keys_read, looked_up,
          cbreak,
          start_column, cur_column, echoed, erased>>

script_vars == <<commands, idx, success>>
loop_vars == <<is_tv, cmd_func_map, val, keys_read, looked_up, cbreak>>
text_vars == <<te_val, start_column, cur_column, echoed, erased>>
input_vars == <<command, roku, roku_type>>

\* one attempted device operation; ok is FALSE when it raised
DeviceCall(tok, op, ch, ok) ==
    [tok |-> tok, op |-> op, ch |-> ch, ms |-> 0, ok |-> ok]

\* one completed time.sleep
Slept(tok, ms) ==
    [tok |-> tok, op |-> "sleep", ch |-> "", ms |-> ms, ok |-> TRUE]

Init ==
    /\ pc = "start"
    /\ command \in {None} \cup ScriptPool
    /\ roku \in BOOLEAN
    /\ roku_type = "none"
    /\ commands = <<>>
    /\ idx = 0
    /\ success = "none"
    /\ exit_status = -1
    /\ trace = <<>>
    /\ is_tv = FALSE
    /\ cmd_func_map = <<>>
    /\ val = ""
    /\ te_val = ""
    /\ keys_read = 0
    /\ looked_up = 0
    /\ cbreak = 0
    /\ start_column = 0
    /\ cur_column = 0
    /\ echoed = 0
    /\ erased = 0

(***************************************************************************)
(* Script mode: execute_command, execute_text, parse_and_execute_commands. *)
(***************************************************************************)
\* a script word as a Python string
Str_power       == <<"p","o","w","e","r">>
Str_back        == <<"b","a","c","k">>
Str_home        == <<"h","o","m","e">>
Str_left        == <<"l","e","f","t">>
Str_down        == <<"d","o","w","n">>
Str_up          == <<"u","p">>
Str_right       == <<"r","i","g","h","t">>
Str_replay      == <<"r","e","p","l","a","y">>
Str_info        == <<"i","n","f","o">>
Str_reverse     == <<"r","e","v","e","r","s","e">>
Str_forward     == <<"f","o","r","w","a","r","d">>
Str_play        == <<"p","l","a","y">>
Str_pause       == <<"p","a","u","s","e">>
Str_volume_up   == <<"v","o","l","u","m","e","-","u","p">>
Str_volume_down == <<"v","o","l","u","m","e","-","d","o","w","n">>
Str_mute        == <<"m","u","t","e">>
Str_select      == <<"s","e","l","e","c","t">>
Str_enter       == <<"e","n","t","e","r">>

\* execute_command's table: symbolic command -> device operation
script_cmd_func_map ==
    { <<Str_power, "power">>,
      <<Str_back, "back">>,
      <<Str_home, "home">>,
      <<Str_left, "left">>,
      <<Str_down, "down">>,
      <<Str_up, "up">>,
      <<Str_right, "right">>,
      <<Str_replay, "replay">>,
      <<Str_info, "info">>,
      <<Str_reverse, "reverse">>,
      <<Str_forward, "forward">>,
      <<Str_play, "play">>,
      <<Str_pause, "play">>,
      <<Str_volume_up, "volume_up">>,
      <<Str_volume_down, "volume_down">>,
      <<Str_mute, "volume_mute">>,
      <<Str_select, "select">>,
      <<Str_enter, "select">> }

\* cmd in cmd_func_map
in_script_map(cmd) == \E e \in script_cmd_func_map : e[1] = cmd

\* cmd_func_map[cmd]
script_op(cmd) == (CHOOSE e \in script_cmd_func_map : e[1] = cmd)[2]

\* execute_command looking cmd up without lower-casing it
execute_command_CaseSensitive(cmd, tok, ok) ==
    IF in_script_map(cmd)
    THEN [ret |-> ok, calls |-> <<DeviceCall(tok, script_op(cmd), "", ok)>>]
    ELSE [ret |-> FALSE, calls |-> <<>>]

\* execute_command trying the operation a second time when it raised
execute_command_Retry(cmd, tok, ok) ==
    LET c == lower(cmd)
    IN  IF in_script_map(c)
        THEN [ret |-> TRUE,
              calls |-> IF ok
                        THEN <<DeviceCall(tok, script_op(c), "", TRUE)>>
                        ELSE <<DeviceCall(tok, script_op(c), "", FALSE),
                               DeviceCall(tok, script_op(c), "", TRUE)>>]
        ELSE [ret |-> FALSE, calls |-> <<>>]

\* execute_command(cmd) for token number tok, where the device operation,
\* if one is invoked, succeeds when ok and raises otherwise: the value
\* returned and the device operations attempted
execute_command(cmd, tok, ok) ==
    LET c == IF ~(startswith(cmd, TEXT) \/ startswith(cmd, WAIT))
             THEN lower(cmd) ELSE cmd
    IN  IF in_script_map(c)
        THEN [ret |-> ok, calls |-> <<DeviceCall(tok, script_op(c), "", ok)>>]
        ELSE [ret |-> FALSE, calls |-> <<>>]

\* execute_text catching the failure of each send on its own and going on
execute_text_GoesOn(text, tok, n) ==
    LET chars == [i \in 1..Len(text) |->
                    DeviceCall(tok, "literal", text[i], i # n + 1)]
        enter == <<DeviceCall(tok, "enter", "", n # Len(text))>>
    IN  [ret |-> n > Len(text), calls |-> chars \o enter]

\* execute_text sending the text lower-cased
execute_text_LowerCased(text, tok, n) ==
    LET sent  == IF n < Len(text) THEN n + 1 ELSE Len(text)
        chars == [i \in 1..sent |->
                    DeviceCall(tok, "literal", lower_char(text[i]), i <= n)]
        enter == IF n >= Len(text)
                 THEN <<DeviceCall(tok, "enter", "", n > Len(text))>>
                 ELSE <<>>
    IN  [ret |-> n > Len(text), calls |-> chars \o enter]

\* execute_text(text) for token number tok, where the first n device
\* operations succeed and the next one raises (n = Len(text) + 1: none
\* raises): the value returned and the device operations attempted
execute_text(text, tok, n) ==
    LET sent  == IF n < Len(text) THEN n + 1 ELSE Len(text)
        chars == [i \in 1..sent |-> DeviceCall(tok, "literal", text[i], i <= n)]
        enter == IF n >= Len(text)
                 THEN <<DeviceCall(tok, "enter", "", n > Len(text))>>
                 ELSE <<>>
    IN  [ret |-> n > Len(text), calls |-> chars \o enter]

\* run: no device handle was obtained, run returns
Run_NoDevice ==
    /\ pc = "start"
    /\ ~roku
    /\ pc' = "exited"
    /\ exit_status' = 0
    /\ UNCHANGED <<input_vars, script_vars, trace, loop_vars, text_vars>>

\* run chooses script mode; parse_and_execute_commands splits the string
Run_ScriptMode ==
    /\ pc = "start"
    /\ roku
    /\ command # None /\ command # <<>>
    /\ LET pieces == split(command, ",")
       IN  commands' = [i \in 1..Len(pieces) |-> strip(pieces[i])]
    /\ idx' = 1
    /\ pc' = "script"
    /\ UNCHANGED <<input_vars, success, exit_status, trace, loop_vars,
                   text_vars>>

\* the token the for loop is at
InLoop == pc = "script" /\ idx <= Len(commands)
cmd_now == strip(commands[idx])

\* a failure that is recorded while the loop goes on
ReturnFalse_GoesOn ==
    /\ success' = "False"
    /\ idx' = idx + 1
    /\ UNCHANGED <<commands, pc>>

\* parse_and_execute_commands returns False
ReturnFalse ==
    /\ success' = "False"
    /\ pc' = "script_return"
    /\ UNCHANGED <<commands, idx>>

\* parse_and_execute_commands goes on to the next token
Continue ==
    /\ idx' = idx + 1
    /\ UNCHANGED <<commands, success, pc>>

\* an empty token: continue
Token_Empty ==
    /\ InLoop
    /\ commands[idx] = <<>>
    /\ Continue
    /\ UNCHANGED <<input_vars, exit_status, trace, loop_vars, text_vars>>

\* a WAIT: token
Token_Wait ==
    /\ InLoop
    /\ commands[idx] # <<>>
    /\ startswith(upper(cmd_now), WAIT)
    /\ LET delay == float(split(cmd_now, ":")[2])
       IN  IF delay.err \/ sleep_outcome(delay) = "ValueError"
           THEN /\ ReturnFalse
                /\ UNCHANGED <<trace, exit_status>>
           ELSE IF sleep_outcome(delay) = "OverflowError"
           THEN \* not caught by `except ValueError`: leaves run as well
                /\ success' = "raised"
                /\ pc' = "exited"
                /\ exit_status' = 1
                /\ UNCHANGED <<commands, idx, trace>>
           ELSE /\ trace' = Append(trace, Slept(idx, delay.ms))
                /\ Continue
                /\ UNCHANGED exit_status
    /\ UNCHANGED <<input_vars, loop_vars, text_vars>>

\* a TEXT: token
Token_Text ==
    /\ InLoop
    /\ commands[idx] # <<>>
    /\ ~startswith(upper(cmd_now), WAIT)
    /\ startswith(upper(cmd_now), TEXT)
    /\ LET text == slice_from(cmd_now, 5)
       IN  \E n \in 0..(Len(text) + 1) :
             LET r == execute_text(text, idx, n)
             IN  /\ trace' = trace \o r.calls
                 /\ IF ~r.ret THEN ReturnFalse ELSE Continue
    /\ UNCHANGED <<input_vars, exit_status, loop_vars, text_vars>>

\* the pause after a regular command
PacingMs == 100

\* a regular command with no pause after it
Token_Command_NoPause ==
    /\ InLoop
    /\ commands[idx] # <<>>
    /\ ~startswith(upper(cmd_now), WAIT)
    /\ ~startswith(upper(cmd_now), TEXT)
    /\ \E ok \in BOOLEAN :
         LET r == execute_command(cmd_now, idx, ok)
         IN  /\ trace' = trace \o r.calls
             /\ IF ~r.ret THEN ReturnFalse ELSE Continue
    /\ UNCHANGED <<input_vars, exit_status, loop_vars, text_vars>>

\* a regular command
Token_Command ==
    /\ InLoop
    /\ commands[idx] # <<>>
    /\ ~startswith(upper(cmd_now), WAIT)
    /\ ~startswith(upper(cmd_now), TEXT)
    /\ \E ok \in BOOLEAN :
         LET r == execute_command(cmd_now, idx, ok)
         IN  IF ~r.ret
             THEN /\ trace' = trace \o r.calls
                  /\ ReturnFalse
             ELSE /\ trace' = (trace \o r.calls) \o <<Slept(idx, PacingMs)>>
                  /\ Continue
    /\ UNCHANGED <<input_vars, exit_status, loop_vars, text_vars>>

\* the for loop is over: parse_and_execute_commands returns True
Script_ReturnTrue ==
    /\ pc = "script"
    /\ idx > Len(commands)
    /\ success' = "True"
    /\ pc' = "script_return"
    /\ UNCHANGED <<input_vars, commands, idx, exit_status, trace, loop_vars,
                   text_vars>>

\* run: sys.exit(0 if success else 1)
Script_Exit ==
    /\ pc = "script_return"
    /\ exit_status' = (IF success = "True" THEN 0 ELSE 1)
    /\ pc' = "exited"
    /\ UNCHANGED <<input_vars, script_vars, trace, loop_vars, text_vars>>

(***************************************************************************)
(* Interactive mode: run's main loop and text_entry.                       *)
(***************************************************************************)
\* a key event as term.inkey() returns it: the text typed, whether it is a
\* decoded sequence, and then its name
Printable(c) == [text |-> c, is_sequence |-> FALSE, name |-> ""]
Named(n) == [text |-> "", is_sequence |-> TRUE, name |-> n]

\* the key events the terminal delivers
KeyEvents ==
    { Printable(c) : c \in {"", "q", "Q", "H", "V", "v", "M", "/", "x"} }
    \cup { Named(n) : n \in {"KEY_ENTER", "KEY_ESCAPE", "KEY_LEFT",
                             "KEY_BACKSPACE", "KEY_DELETE", "KEY_F1"} }

\* `not val` for a key event
is_empty(k) == ~k.is_sequence /\ k.text = ""

\* the table with q bound to an operation as well
default_cmd_func_map_WithQ ==
    ("p" :> "power") @@ ("B" :> "back") @@ ("KEY_ESCAPE" :> "back")
    @@ ("H" :> "home") @@ ("h" :> "left") @@ ("KEY_LEFT" :> "left")
    @@ ("j" :> "down") @@ ("KEY_DOWN" :> "down") @@ ("k" :> "up")
    @@ ("KEY_UP" :> "up") @@ ("l" :> "right") @@ ("KEY_RIGHT" :> "right")
    @@ ("KEY_ENTER" :> "select") @@ ("R" :> "replay") @@ ("i" :> "info")
    @@ ("r" :> "reverse") @@ ("f" :> "forward") @@ (" " :> "play")
    @@ ("/" :> "text_entry") @@ ("q" :> "power")

\* run: the table built for every device
default_cmd_func_map ==
    ("p" :> "power") @@ ("B" :> "back") @@ ("KEY_ESCAPE" :> "back")
    @@ ("H" :> "home") @@ ("h" :> "left") @@ ("KEY_LEFT" :> "left")
    @@ ("j" :> "down") @@ ("KEY_DOWN" :> "down") @@ ("k" :> "up")
    @@ ("KEY_UP" :> "up") @@ ("l" :> "right") @@ ("KEY_RIGHT" :> "right")
    @@ ("KEY_ENTER" :> "select") @@ ("R" :> "replay") @@ ("i" :> "info")
    @@ ("r" :> "reverse") @@ ("f" :> "forward") @@ (" " :> "play")
    @@ ("/" :> "text_entry")

\* the TV entries with volume up and down exchanged
tv_cmd_func_map_Swapped ==
    ("V" :> "volume_down") @@ ("v" :> "volume_up") @@ ("M" :> "volume_mute")

\* run: the entries added when is_tv
tv_cmd_func_map ==
    ("V" :> "volume_up") @@ ("v" :> "volume_down") @@ ("M" :> "volume_mute")

\* the allow-list with an arrow key in it
allowed_sequences_WithArrow ==
    {"KEY_ENTER", "KEY_ESCAPE", "KEY_DELETE", "KEY_BACKSPACE", "KEY_LEFT"}

\* text_entry: the named keys it acts on
allowed_sequences ==
    {"KEY_ENTER", "KEY_ESCAPE", "KEY_DELETE", "KEY_BACKSPACE"}

\* run chooses interactive mode, queries the device type, builds the table
\* and enters cbreak mode
Run_Interactive ==
    /\ pc = "start"
    /\ roku
    /\ ~(command # None /\ command # <<>>)
    /\ \E t \in {"TV", "Box"} :
         /\ roku_type' = t
         /\ is_tv' = (t = "TV")
         /\ cmd_func_map' = IF t = "TV"
                            THEN tv_cmd_func_map @@ default_cmd_func_map
                            ELSE default_cmd_func_map
    /\ cbreak' = 1
    /\ pc' = "main_loop"
    /\ UNCHANGED <<command, roku, script_vars, exit_status, trace, val,
                   keys_read, looked_up, text_vars>>

\* the failure is reported and the main loop goes on
Fatal_GoesOn ==
    /\ pc' = "main_loop"
    /\ cbreak' = 1
    /\ UNCHANGED exit_status

\* the process ends at once, no cbreak context being left
Fatal_KeepsCbreak ==
    /\ pc' = "exited"
    /\ exit_status' = 1
    /\ UNCHANGED cbreak

\* sys.exit(1) from inside every cbreak context
Fatal ==
    /\ pc' = "exited"
    /\ exit_status' = 1
    /\ cbreak' = 0

\* the while condition comparing val with 'q' without lower-casing it
LoopTest_CaseSensitive(v) ==
    IF v # "q"
    THEN /\ pc' = "main_loop"
         /\ UNCHANGED <<exit_status, cbreak>>
    ELSE /\ pc' = "exited"
         /\ exit_status' = 0
         /\ cbreak' = cbreak - 1

\* the while condition of the main loop, evaluated after the body ran on v
LoopTest(v) ==
    IF lower_char(v) # "q"
    THEN /\ pc' = "main_loop"
         /\ UNCHANGED <<exit_status, cbreak>>
    ELSE /\ pc' = "exited"
         /\ exit_status' = 0
         /\ cbreak' = cbreak - 1

\* an unmatched key looked up without the membership test: KeyError
Dispatch_Unmatched_KeyError(v) ==
    /\ pc' = "exited"
    /\ exit_status' = 1
    /\ cbreak' = 0
    /\ UNCHANGED <<trace, text_vars>>

\* the body of the main loop for a key event that is empty or is not a key
\* of the table: nothing is called
Dispatch_Unmatched(v) ==
    /\ LoopTest(v)
    /\ UNCHANGED <<trace, text_vars>>

\* one iteration of run's main loop: read a key event and dispatch it
MainLoop_Key ==
    /\ pc = "main_loop"
    /\ keys_read < MaxKeys
    /\ \E k \in KeyEvents :
         LET v == IF k.is_sequence THEN k.name ELSE k.text
         IN  /\ keys_read' = keys_read + 1
             /\ val' = v
             /\ looked_up' = (IF is_empty(k) THEN looked_up
                              ELSE keys_read + 1)
             /\ IF is_empty(k) \/ v \notin DOMAIN cmd_func_map
                THEN Dispatch_Unmatched(v)
                ELSE IF cmd_func_map[v] = "text_entry"
                THEN \* text_entry up to its first inkey
                     /\ \E col \in StartColumns :
                          /\ start_column' = col
                          /\ cur_column' = col
                     /\ te_val' = ""
                     /\ echoed' = 0
                     /\ erased' = 0
                     /\ cbreak' = cbreak + 1
                     /\ pc' = "text_entry"
                     /\ UNCHANGED <<trace, exit_status>>
                ELSE \E ok \in BOOLEAN :
                     /\ trace' = Append(trace,
                          DeviceCall(keys_read + 1, cmd_func_map[v], "", ok))
                     /\ IF ok THEN LoopTest(v) ELSE Fatal
                     /\ UNCHANGED text_vars
    /\ UNCHANGED <<input_vars, script_vars, is_tv, cmd_func_map>>

\* text_entry returns to the main loop, which tests its condition on its
\* own val
TextEntry_Return ==
    /\ cbreak' = cbreak - 1
    /\ pc' = (IF lower_char(val) # "q" THEN "main_loop" ELSE "exited")
    /\ exit_status' = (IF lower_char(val) # "q" THEN exit_status ELSE 0)

\* text_entry: an empty key event, or a named key outside allowed_sequences
TextEntry_Ignored ==
    UNCHANGED <<pc, exit_status, cbreak, trace, start_column, cur_column,
                echoed, erased>>

\* KEY_ESCAPE treated as a confirmation: enter is sent before leaving
TextEntry_Escape_SendsEnter ==
    /\ trace' = Append(trace, DeviceCall(keys_read + 1, "enter", "", TRUE))
    /\ cbreak' = cbreak - 1
    /\ pc' = "main_loop"
    /\ UNCHANGED <<exit_status, start_column, cur_column, echoed, erased>>

\* text_entry: KEY_ESCAPE
TextEntry_Escape ==
    /\ TextEntry_Return
    /\ UNCHANGED <<trace, start_column, cur_column, echoed, erased>>

\* KEY_ENTER falling through to the main table as well: select is called
TextEntry_Enter_AlsoSelects(n, ok) ==
    /\ trace' = IF ok
                THEN trace \o <<DeviceCall(n, "enter", "", TRUE),
                                DeviceCall(n, "select", "", TRUE)>>
                ELSE Append(trace, DeviceCall(n, "enter", "", FALSE))
    /\ IF ok THEN TextEntry_Return ELSE Fatal
    /\ UNCHANGED <<start_column, cur_column, echoed, erased>>

\* text_entry: KEY_ENTER as key event n, roku.enter() succeeding when ok
TextEntry_Enter(n, ok) ==
    /\ trace' = Append(trace, DeviceCall(n, "enter", "", ok))
    /\ IF ok THEN TextEntry_Return ELSE Fatal
    /\ UNCHANGED <<start_column, cur_column, echoed, erased>>

\* the counter decremented on every backspace, whatever the column
TextEntry_Backspace_Unguarded(n, ok) ==
    /\ trace' = Append(trace, DeviceCall(n, "backspace", "", ok))
    /\ IF ~ok
       THEN /\ Fatal
            /\ UNCHANGED <<cur_column, erased>>
       ELSE /\ UNCHANGED <<pc, exit_status, cbreak>>
            /\ erased' = erased + 1
            /\ cur_column' = cur_column - 1
    /\ UNCHANGED <<start_column, echoed>>

\* the backspace sent only when there is something to erase on screen
TextEntry_Backspace_OnlyWhenRight(n, ok) ==
    /\ IF cur_column > start_column
       THEN /\ trace' = Append(trace, DeviceCall(n, "backspace", "", TRUE))
            /\ erased' = erased + 1
            /\ cur_column' = cur_column - 1
       ELSE UNCHANGED <<trace, cur_column, erased>>
    /\ UNCHANGED <<pc, exit_status, cbreak, start_column, echoed>>

\* text_entry: KEY_DELETE or KEY_BACKSPACE as key event n
TextEntry_Backspace(n, ok) ==
    /\ trace' = Append(trace, DeviceCall(n, "backspace", "", ok))
    /\ IF ~ok
       THEN /\ Fatal
            /\ UNCHANGED <<cur_column, erased>>
       ELSE /\ UNCHANGED <<pc, exit_status, cbreak>>
            /\ IF cur_column > start_column
               THEN /\ erased' = erased + 1
                    /\ cur_column' = cur_column - 1
               ELSE UNCHANGED <<cur_column, erased>>
    /\ UNCHANGED <<start_column, echoed>>

\* text_entry: any other key v as key event n
TextEntry_Literal(n, v, ok) ==
    /\ trace' = Append(trace, DeviceCall(n, "literal", v, ok))
    /\ IF ~ok
       THEN /\ Fatal
            /\ UNCHANGED <<cur_column, echoed>>
       ELSE /\ UNCHANGED <<pc, exit_status, cbreak>>
            /\ echoed' = echoed + 1
            /\ cur_column' = cur_column + 1
    /\ UNCHANGED <<start_column, erased>>

\* one iteration of text_entry's loop: read a key event and act on it
TextEntry_Key ==
    /\ pc = "text_entry"
    /\ keys_read < MaxKeys
    /\ \E k \in KeyEvents :
         LET v == IF k.is_sequence THEN k.name ELSE k.text
             n == keys_read + 1
         IN  /\ keys_read' = n
             /\ te_val' = v
             /\ IF is_empty(k) \/ (k.is_sequence /\ v \notin allowed_sequences)
                THEN TextEntry_Ignored
                ELSE IF v = "KEY_ESCAPE"
                THEN TextEntry_Escape
                ELSE \E ok \in BOOLEAN :
                     IF v = "KEY_ENTER"
                     THEN TextEntry_Enter(n, ok)
                     ELSE IF v = "KEY_DELETE" \/ v = "KEY_BACKSPACE"
                     THEN TextEntry_Backspace(n, ok)
                     ELSE TextEntry_Literal(n, v, ok)
    /\ UNCHANGED <<input_vars, script_vars, is_tv, cmd_func_map, val,
                   looked_up>>

Next ==
    \/ Run_NoDevice
    \/ Run_ScriptMode
    \/ Token_Empty
    \/ Token_Wait
    \/ Token_Text
    \/ Token_Command
    \/ Script_ReturnTrue
    \/ Script_Exit
    \/ Run_Interactive
    \/ MainLoop_Key
    \/ TextEntry_Key

Spec == Init /\ [][Next]_vars

(***************************************************************************)
(* Vocabulary of the properties.                                           *)
(***************************************************************************)
\* parse_and_execute_commands has been entered
ScriptStarted == idx >= 1

\* the interactive dispatcher has been entered
InteractiveStarted == roku_type # "none"

\* the text between the commas of the script, untrimmed
RawTokens == split(command, ",")

\* token i has been processed: the loop is past it, or ended on it
TokenDone(i) == i < idx \/ (i = idx /\ pc # "script")

\* what token i (or key event i) caused, in order
EventsOf(i) == SelectSeq(trace, LAMBDA e : e.tok = i)

\* the device operations among them
DeviceEventsOf(i) == SelectSeq(trace, LAMBDA e : e.tok = i /\ e.op # "sleep")

\* no device operation has raised
NoFailure == \A j \in 1..Len(trace) : trace[j].ok

\* the trace follows the order of the tokens
TokenOrder ==
    \A j, k \in 1..Len(trace) : j < k => trace[j].tok <= trace[k].tok

\* a token of white space only
IsBlank(raw) == \A j \in 1..Len(raw) : raw[j] \in Whitespace

\* raw is the word w in some letter case, white space around it
Spells(raw, w) ==
    \E a \in 0..Len(raw) :
        /\ a + Len(w) <= Len(raw)
        /\ \A j \in 1..a : raw[j] \in Whitespace
        /\ \A j \in 1..Len(w) : lower_char(raw[a + j]) = w[j]
        /\ \A j \in (a + Len(w) + 1)..Len(raw) : raw[j] \in Whitespace

\* raw is a known symbolic command
IsKnownSymbolic(raw) == \E e \in script_cmd_func_map : Spells(raw, e[1])

\* the device operation a known symbolic command names
KnownOp(raw) == (CHOOSE e \in script_cmd_func_map : Spells(raw, e[1]))[2]

\* raw begins, white space and letter case aside, with the directive d
HasPrefix(raw, d) ==
    \E a \in 0..Len(raw) :
        /\ a + Len(d) <= Len(raw)
        /\ \A j \in 1..a : raw[j] \in Whitespace
        /\ \A j \in 1..Len(d) : upper_char(raw[a + j]) = d[j]

\* raw is a symbolic command: not blank and neither a WAIT nor a TEXT token
IsSymbolic(raw) ==
    ~IsBlank(raw) /\ ~HasPrefix(raw, WAIT) /\ ~HasPrefix(raw, TEXT)

\* the remainder of a directive token after its five-character prefix
Remainder(raw) == slice_from(strip(raw), 5)

(***************************************************************************)
(* C1: for a script of known symbolic commands (any letter case, white      *)
(* space around them) and blank tokens, while no device operation has      *)
(* raised: every processed non-blank token has caused exactly one device   *)
(* operation, the one its word names; blank tokens and tokens not yet      *)
(* reached have caused none; the operations appear in token order; and     *)
(* parse_and_execute_commands returns True.                                *)
(***************************************************************************)
C1_WellFormedTokens(raw) ==
    \A i \in 1..Len(raw) : IsBlank(raw[i]) \/ IsKnownSymbolic(raw[i])

C1_WellFormed == C1_WellFormedTokens(RawTokens)

C1_OneOperationPerToken ==
    (ScriptStarted /\ NoFailure) =>
        LET raw == RawTokens
        IN  C1_WellFormedTokens(raw) =>
              /\ TokenOrder
              /\ \A i \in 1..Len(raw) :
                   LET ops == DeviceEventsOf(i)
                   IN  IF TokenDone(i) /\ ~IsBlank(raw[i])
                       THEN Len(ops) = 1 /\ ops[1].op = KnownOp(raw[i])
                       ELSE ops = <<>>
              /\ success \in {"none", "True"}
              /\ pc # "script" => success = "True"

\* a script with a blank token and a command in capitals has returned True
C1_Witness ==
    /\ ScriptStarted /\ C1_WellFormed /\ NoFailure
    /\ pc = "exited" /\ success = "True"
    /\ Len(RawTokens) = 3
    /\ \E i \in 1..3 : IsBlank(RawTokens[i])
    /\ \E i \in 1..3 : IsKnownSymbolic(RawTokens[i])
                       /\ RawTokens[i] # lower(strip(RawTokens[i]))
    /\ Len(SelectSeq(trace, LAMBDA e : e.op # "sleep")) = 2

(***************************************************************************)
(* C2: once a symbolic token has failed (its word is unknown, or its       *)
(* device operation raised), parse_and_execute_commands has returned False *)
(* on that token: the trace holds nothing of a later token, the failing    *)
(* token caused at most its one failed operation and no pause, and every   *)
(* token before it was executed, in order.                                 *)
(***************************************************************************)
C2_FailsAt(i) ==
    /\ IsSymbolic(RawTokens[i])
    /\ \/ ~IsKnownSymbolic(RawTokens[i])
       \/ \E j \in 1..Len(trace) : trace[j].tok = i /\ ~trace[j].ok

C2_FirstFailureWins ==
    ScriptStarted =>
        \A i \in 1..Len(RawTokens) :
            (TokenDone(i) /\ C2_FailsAt(i)) =>
                /\ success = "False"
                /\ idx = i
                /\ pc \in {"script_return", "exited"}
                /\ TokenOrder
                /\ \A j \in 1..Len(trace) : trace[j].tok <= i
                /\ Len(EventsOf(i)) <= 1
                /\ \A j \in 1..Len(trace) :
                     trace[j].tok = i => trace[j].op # "sleep"
                /\ \A j \in 1..(i - 1) :
                     /\ ~IsBlank(RawTokens[j]) <=> EventsOf(j) # <<>>
                     /\ \A k \in 1..Len(trace) :
                          trace[k].tok = j => trace[k].ok

\* known, unknown, known: the script has failed on its second token
C2_Witness ==
    /\ ScriptStarted
    /\ pc = "exited" /\ success = "False" /\ exit_status = 1
    /\ Len(RawTokens) = 3
    /\ IsKnownSymbolic(RawTokens[1])
    /\ IsSymbolic(RawTokens[2]) /\ ~IsKnownSymbolic(RawTokens[2])
    /\ IsKnownSymbolic(RawTokens[3])
    /\ idx = 2
    /\ Len(trace) = 2

(***************************************************************************)
(* C3: a processed WAIT token is decided by the remainder after its        *)
(* prefix: if the remainder is a valid non-negative number of seconds the  *)
(* token has caused exactly one sleep of that length and nothing else and  *)
(* the loop went on; if not, it has caused nothing and the interpreter     *)
(* stopped on it with failure.  (For an infinite length the way of         *)
(* stopping is left open here: it is the subject of C6.)                   *)
(***************************************************************************)
C3_ValidSeconds(r) ==
    LET d == float(r)
    IN  ~d.err /\ d.kind = "finite" /\ ~(d.neg /\ d.ms > 0)

C3_WaitRemainderDecides ==
    ScriptStarted =>
        \A i \in 1..Len(RawTokens) :
            (TokenDone(i) /\ HasPrefix(RawTokens[i], WAIT)) =>
                LET r == Remainder(RawTokens[i])
                    d == float(r)
                IN  IF C3_ValidSeconds(r)
                    THEN /\ EventsOf(i) = <<Slept(i, d.ms)>>
                         /\ idx > i
                    ELSE /\ EventsOf(i) = <<>>
                         /\ idx = i
                         /\ pc \in {"script_return", "exited"}
                         /\ \/ success = "False"
                            \/ ~d.err /\ d.kind = "inf" /\ success = "raised"

(***************************************************************************)
(* C4: a processed TEXT token (prefix in any letter case) none of whose    *)
(* device operations raised has caused exactly: one literal operation per  *)
(* character of the remainder, in order, each carrying the character as    *)
(* written, then one enter operation; and the loop went on to the next     *)
(* token.                                                                  *)
(***************************************************************************)
C4_TextSendsLiteralsThenEnter ==
    ScriptStarted =>
        \A i \in 1..Len(RawTokens) :
            ( /\ TokenDone(i)
              /\ HasPrefix(RawTokens[i], TEXT)
              /\ \A j \in 1..Len(trace) : trace[j].tok = i => trace[j].ok ) =>
                LET text == Remainder(RawTokens[i])
                IN  /\ EventsOf(i) =
                          [j \in 1..Len(text) |->
                              DeviceCall(i, "literal", text[j], TRUE)]
                          \o <<DeviceCall(i, "enter", "", TRUE)>>
                    /\ idx > i

\* Text:Hi was sent as H, i, enter, then an empty text as a lone enter
C4_Witness ==
    /\ ScriptStarted
    /\ pc = "exited" /\ success = "True"
    /\ Len(RawTokens) = 2
    /\ RawTokens[1] = <<"T","e","x","t",":","H","i">>
    /\ RawTokens[2] = <<"t","e","x","t",":">>
    /\ Len(trace) = 4
    /\ trace[1].ch = "H" /\ trace[2].ch = "i" /\ trace[3].op = "enter"
    /\ trace[4].op = "enter"

(***************************************************************************)
(* C5: when the script option is present (any string, the empty one        *)
(* included) and a device handle was obtained, run executes the            *)
(* interpreter, never enters the interactive loop, and exits with 0 if     *)
(* every token succeeded and with 1 otherwise.                             *)
(***************************************************************************)
C5_ScriptOptionRunsInterpreter ==
    (command # None /\ roku /\ pc # "start") =>
        /\ ScriptStarted
        /\ ~InteractiveStarted
        /\ cbreak = 0
        /\ pc = "exited" => exit_status = (IF success = "True" THEN 0 ELSE 1)

(***************************************************************************)
(* C6: parse_and_execute_commands never ends by raising: once it is over   *)
(* it has returned True or False.                                          *)
(***************************************************************************)
C6_NoExceptionEscapes ==
    (ScriptStarted /\ pc \in {"script_return", "exited"}) =>
        success \in {"True", "False"}

\* the last key event was read by the main loop, and val is that key
MainLoopRead == pc \in {"main_loop", "exited"} /\ keys_read >= 1 /\ val # "/"

(***************************************************************************)
(* C7: whenever the main loop's key event is q or Q the loop is over: the  *)
(* program has left it (and cbreak mode) at that event, no device          *)
(* operation belongs to that event, and no key event was read after it.    *)
(***************************************************************************)
C7_QuitTerminates ==
    (InteractiveStarted /\ val \in {"q", "Q"}) =>
        /\ pc = "exited"
        /\ cbreak = 0
        /\ exit_status = 0
        /\ EventsOf(keys_read) = <<>>
        /\ \A j \in 1..Len(trace) : trace[j].tok < keys_read

\* Q quits after an operation was dispatched
C7_Witness ==
    /\ InteractiveStarted
    /\ val = "Q" /\ pc = "exited"
    /\ keys_read = 2 /\ Len(trace) = 1

(***************************************************************************)
(* C8: the active table is the default table, plus V, v, M bound to        *)
(* volume-up, volume-down and volume-mute exactly when the device type is  *)
(* TV, in every state from the moment it is built; and a V, v or M key     *)
(* event of the main loop has caused that one operation on a TV and no     *)
(* operation otherwise.                                                    *)
(***************************************************************************)
VolumeKeys == {"V", "v", "M"}

VolumeOp(k) ==
    CASE k = "V" -> "volume_up"
      [] k = "v" -> "volume_down"
      [] k = "M" -> "volume_mute"

C8_VolumeKeysOnlyOnTV ==
    InteractiveStarted =>
        /\ is_tv = (roku_type = "TV")
        /\ DOMAIN cmd_func_map \cap VolumeKeys =
              (IF roku_type = "TV" THEN VolumeKeys ELSE {})
        /\ \A k \in DOMAIN cmd_func_map \cap VolumeKeys :
              cmd_func_map[k] = VolumeOp(k)
        /\ DOMAIN cmd_func_map \ VolumeKeys = DOMAIN default_cmd_func_map
        /\ \A k \in DOMAIN default_cmd_func_map :
              cmd_func_map[k] = default_cmd_func_map[k]
        /\ (MainLoopRead /\ val \in VolumeKeys) =>
              LET ev == EventsOf(keys_read)
              IN  IF roku_type = "TV"
                  THEN Len(ev) = 1 /\ ev[1].op = VolumeOp(val)
                  ELSE ev = <<>> /\ pc = "main_loop"

\* on a TV, V was dispatched after a text-entry run
C8_Witness ==
    /\ roku_type = "TV"
    /\ MainLoopRead /\ val = "V"
    /\ keys_read = 3 /\ te_val = "KEY_ESCAPE"
    /\ trace = <<DeviceCall(3, "volume_up", "", TRUE)>>

(***************************************************************************)
(* C9: a key event of the main loop that is neither q/Q nor a key of the   *)
(* active table has caused nothing: no device operation, no exit, and the  *)
(* loop is about to read the next key event.                               *)
(***************************************************************************)
C9_UnmatchedKeyIgnored ==
    ( /\ InteractiveStarted
      /\ MainLoopRead
      /\ val \notin {"q", "Q"}
      /\ val \notin DOMAIN cmd_func_map ) =>
        /\ pc = "main_loop"
        /\ exit_status = -1
        /\ cbreak = 1
        /\ EventsOf(keys_read) = <<>>

\* x, then V on a device that is no TV, were ignored
C9_Witness ==
    /\ roku_type = "Box"
    /\ MainLoopRead /\ val = "V"
    /\ keys_read = 2
    /\ trace = <<>>
    /\ pc = "main_loop"

(***************************************************************************)
(* C10: in interactive mode, once a device operation has raised the        *)
(* program has exited with a non-zero status: the failed operation is the  *)
(* last entry of the trace and the only failed one, and it belongs to the  *)
(* last key event read.                                                    *)
(***************************************************************************)
C10_DeviceFailureIsFatal ==
    (InteractiveStarted /\ ~NoFailure) =>
        /\ pc = "exited"
        /\ exit_status \notin {-1, 0}
        /\ ~trace[Len(trace)].ok
        /\ \A j \in 1..(Len(trace) - 1) : trace[j].ok
        /\ trace[Len(trace)].tok = keys_read

\* a literal sent from the text-entry sub-mode raised
C10_Witness ==
    /\ InteractiveStarted
    /\ pc = "exited" /\ exit_status = 1
    /\ Len(trace) = 2
    /\ trace[2].op = "literal" /\ ~trace[2].ok
    /\ keys_read = 3

(***************************************************************************)
(* Vocabulary of the text-entry properties.                                *)
(***************************************************************************)
\* this step is text_entry reading one key event
TextKeyStep == pc = "text_entry" /\ keys_read' = keys_read + 1

\* the trace has only grown in this step
TraceKept ==
    Len(trace') >= Len(trace) /\ SubSeq(trace', 1, Len(trace)) = trace

\* this step attempted exactly one device operation, op, for the key read
OneCall(op) ==
    /\ Len(trace') = Len(trace) + 1
    /\ SubSeq(trace', 1, Len(trace)) = trace
    /\ trace'[Len(trace')].op = op
    /\ trace'[Len(trace')].tok = keys_read'

\* the operation attempted in this step did not raise
CallOk == trace'[Len(trace')].ok

\* the characters and the key names the terminal delivers
PrintableTexts == {k.text : k \in {e \in KeyEvents : ~e.is_sequence}} \ {""}
NamedKeys == {k.name : k \in {e \in KeyEvents : e.is_sequence}}

(***************************************************************************)
(* C11: every delete or backspace key event of text_entry attempts exactly *)
(* one backspace operation, whatever the column; when the operation does   *)
(* not raise, one visual erase is done and the column counter decremented  *)
(* if and only if the counter was greater than the starting column.        *)
(***************************************************************************)
C11_BackspaceAlwaysSent ==
    [][ (TextKeyStep /\ te_val' \in {"KEY_DELETE", "KEY_BACKSPACE"}) =>
          /\ OneCall("backspace")
          /\ start_column' = start_column
          /\ echoed' = echoed
          /\ IF CallOk /\ cur_column > start_column
             THEN erased' = erased + 1 /\ cur_column' = cur_column - 1
             ELSE erased' = erased /\ cur_column' = cur_column ]_vars

\* a backspace at the starting column was sent and erased nothing
C11_Witness ==
    /\ pc = "text_entry"
    /\ te_val = "KEY_BACKSPACE"
    /\ cur_column = start_column /\ echoed = 0 /\ erased = 0
    /\ trace = <<DeviceCall(2, "backspace", "", TRUE)>>

(***************************************************************************)
(* C12: text_entry is left by the enter key, after exactly one enter       *)
(* operation, and by the escape key, with no operation at all; it is left  *)
(* by nothing else but a device operation raising; and no step of it takes *)
(* anything back from the trace.                                           *)
(***************************************************************************)
C12_ExitsOnEnterAndEscape ==
    [][ pc = "text_entry" =>
          /\ TraceKept
          /\ (TextKeyStep /\ te_val' = "KEY_ENTER") =>
                /\ OneCall("enter")
                /\ CallOk => (pc' = "main_loop" /\ cbreak' = cbreak - 1)
          /\ (TextKeyStep /\ te_val' = "KEY_ESCAPE") =>
                /\ trace' = trace
                /\ pc' = "main_loop"
                /\ cbreak' = cbreak - 1
          /\ pc' # "text_entry" =>
                \/ te_val' \in {"KEY_ENTER", "KEY_ESCAPE"}
                \/ /\ pc' = "exited"
                   /\ trace' # trace
                   /\ ~CallOk ]_vars

\* escape left the sub-mode; the character sent before it stays sent
C12_Witness ==
    /\ pc = "main_loop" /\ val = "/"
    /\ te_val = "KEY_ESCAPE"
    /\ keys_read = 3
    /\ trace = <<DeviceCall(2, "literal", "x", TRUE)>>

(***************************************************************************)
(* C13: the cbreak contexts entered and not left are exactly those of the  *)
(* place the program is at: two inside text_entry, one in the main loop    *)
(* (so the mode is back to what it was when the sub-mode began), and none  *)
(* once the program has ended, by quit or by a fatal error.                *)
(***************************************************************************)
C13_CbreakReleased ==
    /\ pc = "text_entry" => cbreak = 2
    /\ pc = "main_loop" => cbreak = 1
    /\ pc \in {"start", "script", "script_return", "exited"} => cbreak = 0

\* a backspace raised inside the sub-mode and both contexts were left
C13_Witness ==
    /\ pc = "exited" /\ exit_status = 1
    /\ cbreak = 0
    /\ te_val = "KEY_DELETE"
    /\ Len(trace) = 2
    /\ trace[2].op = "backspace" /\ ~trace[2].ok

(***************************************************************************)
(* C14: every device operation is attempted at most once per action.  A    *)
(* matched key event of the main loop other than '/' has caused exactly    *)
(* one attempt, of its bound operation, and no key event more than one; a  *)
(* symbolic token has caused at most one attempt; a TEXT token at most one *)
(* literal per character, in order, and at most one enter; and a failed    *)
(* attempt is the last entry of the trace, so nothing follows a failure.   *)
(***************************************************************************)
C14_AtMostOnePerAction ==
    /\ \A j \in 1..(Len(trace) - 1) : trace[j].ok
    /\ InteractiveStarted =>
          /\ \A i \in 1..keys_read : Len(EventsOf(i)) <= 1
          /\ (MainLoopRead /\ val \in DOMAIN cmd_func_map) =>
                LET ev == EventsOf(keys_read)
                IN  Len(ev) = 1 /\ ev[1].op = cmd_func_map[val]
    /\ ScriptStarted =>
          LET raw == RawTokens
          IN  \A i \in 1..Len(raw) :
                /\ IsSymbolic(raw[i]) => Len(DeviceEventsOf(i)) <= 1
                /\ HasPrefix(raw[i], TEXT) =>
                      LET text == Remainder(raw[i])
                          lits == SelectSeq(trace, LAMBDA e :
                                      e.tok = i /\ e.op = "literal")
                          ents == SelectSeq(trace, LAMBDA e :
                                      e.tok = i /\ e.op = "enter")
                      IN  /\ Len(lits) <= Len(text)
                          /\ \A j \in 1..Len(lits) : lits[j].ch = text[j]
                          /\ Len(ents) <= 1
                          /\ Len(EventsOf(i)) = Len(lits) + Len(ents)

\* home succeeded, up raised and was not tried again
C14_Witness ==
    /\ ScriptStarted
    /\ pc = "exited" /\ success = "False"
    /\ Len(trace) = 3
    /\ trace[1] = DeviceCall(1, "home", "", TRUE)
    /\ trace[3] = DeviceCall(2, "up", "", FALSE)

(***************************************************************************)
(* C15, as claimed: for a q or Q key event of the main loop the quit check *)
(* comes before the table lookup, so the lookup for that event is never    *)
(* evaluated and the event is never dispatched.                            *)
(***************************************************************************)
C15_QuitCheckedBeforeLookup ==
    (InteractiveStarted /\ MainLoopRead /\ val \in {"q", "Q"}) =>
        /\ looked_up < keys_read
        /\ EventsOf(keys_read) = <<>>

(***************************************************************************)
(* C15, amended: for a q or Q key event of the main loop the table lookup  *)
(* is evaluated first and the quit check after it; the event is not        *)
(* dispatched because the active table has no entry for q or Q.            *)
(***************************************************************************)
C15_QuitCheckedAfterLookup ==
    (InteractiveStarted /\ MainLoopRead /\ val \in {"q", "Q"}) =>
        /\ looked_up = keys_read
        /\ DOMAIN cmd_func_map \cap {"q", "Q"} = {}
        /\ EventsOf(keys_read) = <<>>
        /\ pc = "exited"

\* q was looked up in the table as the third key event, and then quit
C15_Witness ==
    /\ InteractiveStarted
    /\ val = "q" /\ pc = "exited" /\ exit_status = 0
    /\ keys_read = 3 /\ looked_up = 3

(***************************************************************************)
(* C16: a processed symbolic token whose operation succeeded has caused    *)
(* that operation and then one pause of 0.1 s, after which the loop went   *)
(* on; a failing symbolic token and a TEXT token have caused no pause; a   *)
(* WAIT token has caused at most its own suspend; a blank token nothing;   *)
(* and the trace follows the token order, so the pause lies between the    *)
(* operations of two consecutive commands.                                 *)
(***************************************************************************)
C16_PacingAfterCommands ==
    ScriptStarted =>
        LET raw == RawTokens
            NoPause(ev) == \A j \in 1..Len(ev) : ev[j].op # "sleep"
        IN  /\ TokenOrder
            /\ \A i \in 1..Len(raw) :
                 TokenDone(i) =>
                   LET ev == EventsOf(i)
                   IN  IF IsSymbolic(raw[i])
                       THEN IF /\ IsKnownSymbolic(raw[i])
                               /\ \A j \in 1..Len(ev) : ev[j].ok
                            THEN /\ Len(ev) = 2
                                 /\ ev[1].op = KnownOp(raw[i])
                                 /\ ev[2] = Slept(i, 100)
                                 /\ idx > i
                            ELSE NoPause(ev)
                       ELSE IF HasPrefix(raw[i], WAIT) THEN Len(ev) <= 1
                       ELSE IF HasPrefix(raw[i], TEXT) THEN NoPause(ev)
                       ELSE ev = <<>>

\* home, pause, up, pause: two commands have run
C16_Witness ==
    /\ ScriptStarted
    /\ pc = "exited" /\ success = "True"
    /\ Len(RawTokens) = 2
    /\ trace = << DeviceCall(1, "home", "", TRUE), Slept(1, 100),
                  DeviceCall(2, "up", "", TRUE), Slept(2, 100) >>

(***************************************************************************)
(* C17: from the moment the interactive dispatcher runs, and so throughout *)
(* every text-entry run, the column counter is never less than the         *)
(* starting column, and counter minus starting column is the number of     *)
(* characters echoed minus the number of visual erasures.                  *)
(***************************************************************************)
C17_ColumnTracksEcho ==
    InteractiveStarted =>
        /\ cur_column >= start_column
        /\ cur_column - start_column = echoed - erased

\* one character was echoed and then erased: the counter is back at start
C17_Witness ==
    /\ pc = "text_entry"
    /\ keys_read = 3
    /\ echoed = 1 /\ erased = 1
    /\ start_column = 29 /\ cur_column = 29

(***************************************************************************)
(* C18: when a literal send has raised in a processed TEXT token, the      *)
(* token has caused the literals of the characters up to the failing one,  *)
(* in order, and nothing else (no further literal, no enter); the failed   *)
(* send is the last entry of the trace; and the interpreter has stopped on *)
(* that token with failure.                                                *)
(***************************************************************************)
C18_TextStopsAtFailedSend ==
    ScriptStarted =>
        LET raw == RawTokens
        IN  \A i \in 1..Len(raw) :
              ( /\ TokenDone(i)
                /\ HasPrefix(raw[i], TEXT)
                /\ \E j \in 1..Len(trace) :
                     /\ trace[j].tok = i
                     /\ trace[j].op = "literal"
                     /\ ~trace[j].ok ) =>
                  LET text == Remainder(raw[i])
                      ev   == EventsOf(i)
                      k    == Len(ev)
                  IN  /\ k <= Len(text)
                      /\ \A j \in 1..k :
                           ev[j] = DeviceCall(i, "literal", text[j], j < k)
                      /\ trace[Len(trace)] = ev[k]
                      /\ success = "False"
                      /\ idx = i
                      /\ pc \in {"script_return", "exited"}

\* H was sent, i raised, and the command after the text never ran
C18_Witness ==
    /\ ScriptStarted
    /\ pc = "exited" /\ success = "False" /\ exit_status = 1
    /\ Len(RawTokens) = 2
    /\ IsKnownSymbolic(RawTokens[2])
    /\ trace = << DeviceCall(1, "literal", "H", TRUE),
                  DeviceCall(1, "literal", "i", FALSE) >>

(***************************************************************************)
(* C19: in text_entry a named key other than enter, escape, delete and     *)
(* backspace changes nothing (no device operation, same column, sub-mode   *)
(* still active); a printable character attempts exactly one literal       *)
(* operation carrying that character and, the operation not raising, adds  *)
(* one to the column counter.                                              *)
(***************************************************************************)
C19_OtherKeysInTextEntry ==
    [][ TextKeyStep =>
          /\ te_val' \in NamedKeys \ {"KEY_ENTER", "KEY_ESCAPE",
                                      "KEY_DELETE", "KEY_BACKSPACE"} =>
                /\ trace' = trace
                /\ pc' = "text_entry"
                /\ UNCHANGED <<start_column, cur_column, echoed, erased,
                               cbreak, exit_status>>
          /\ te_val' \in PrintableTexts =>
                /\ OneCall("literal")
                /\ trace'[Len(trace')].ch = te_val'
                /\ erased' = erased
                /\ IF CallOk
                   THEN /\ cur_column' = cur_column + 1
                        /\ echoed' = echoed + 1
                        /\ pc' = "text_entry"
                   ELSE cur_column' = cur_column /\ echoed' = echoed ]_vars

\* Q was sent as a literal, then an arrow key changed nothing
C19_Witness ==
    /\ pc = "text_entry"
    /\ te_val = "KEY_LEFT"
    /\ keys_read = 3
    /\ trace = <<DeviceCall(2, "literal", "Q", TRUE)>>
    /\ cur_column = start_column + 1

(***************************************************************************)
(* C20: key events read by text_entry are not interpreted by the main      *)
(* loop.  A q or Q typed in the sub-mode has caused one literal carrying   *)
(* it and the program has not quit; when the sub-mode has just returned,   *)
(* its last key has caused the enter operation (enter) or nothing          *)
(* (escape), neither select nor back, and the main loop is running, about  *)
(* to read the next key event.                                             *)
(***************************************************************************)
C20_SubModeKeysStayInSubMode ==
    InteractiveStarted =>
        /\ (pc = "text_entry" /\ te_val \in {"q", "Q"}) =>
              /\ EventsOf(keys_read) =
                    <<DeviceCall(keys_read, "literal", te_val, TRUE)>>
              /\ exit_status = -1
        /\ (pc = "exited" /\ te_val \in {"q", "Q"}) =>
              /\ exit_status = 1
              /\ trace[Len(trace)] =
                    DeviceCall(keys_read, "literal", te_val, FALSE)
        /\ (pc = "main_loop" /\ val = "/") =>
              /\ te_val \in {"KEY_ENTER", "KEY_ESCAPE"}
              /\ EventsOf(keys_read) =
                    (IF te_val = "KEY_ENTER"
                     THEN <<DeviceCall(keys_read, "enter", "", TRUE)>>
                     ELSE <<>>)
              /\ exit_status = -1
              /\ cbreak = 1
        /\ \A j \in 1..Len(trace) :
              trace[j].op \in {"select", "back"} => looked_up >= trace[j].tok

\* q was typed in the sub-mode, enter confirmed it, the main loop goes on
C20_Witness ==
    /\ pc = "main_loop" /\ val = "/"
    /\ te_val = "KEY_ENTER"
    /\ keys_read = 3
    /\ trace = << DeviceCall(2, "literal", "q", TRUE),
                  DeviceCall(3, "enter", "", TRUE) >>

====
